---- MODULE Spec2Model ----
(***************************************************************************)
(* Model of extract_colorblind_safe_palette                                *)
(* (src/extract_colorblind_safe_palettes.py).                              *)
(*                                                                         *)
(* One call of the function is a run of the state machine: the image is    *)
(* loaded and resized, KMeans yields centroids and labels, every centroid  *)
(* is tested against the others under the three colour-blindness models,   *)
(* the palette entries are formatted and sorted, the table is printed and  *)
(* saved, the figure is rendered and saved, the palette is returned.  An   *)
(* exception at a step that can raise ends the run in pc = "aborted".      *)
(*                                                                         *)
(* Numbers.  Floats are modelled by exact integer arithmetic:              *)
(*   - a centroid channel c in [0,1] is the integer c * 255 * ChanScale;   *)
(*   - a frequency (a percentage) is the pair <<numerator, denominator>>,  *)
(*     a rounded frequency is an integer number of tenths of a percent;    *)
(*   - a CIELAB colour is a triple of integers, a distance is compared     *)
(*     through its square.                                                 *)
(* What the libraries compute from the image (the KMeans centroids and     *)
(* label counts, the CIELAB value of every simulated centroid) is fixed by *)
(* the input image; the model draws it with the input, in Init.            *)
(***************************************************************************)
EXTENDS Integers, Sequences, FiniteSets, Bags, TLC

VARIABLES
    \* ---- the call's arguments and the image file
    w, h,             \* size of the image on disk              (line 83)
    resize,           \* parameter resize                       (line 14)
    n_colors,         \* parameter n_colors                     (line 12)
    deltaE_thresh,    \* parameter deltaE_thresh                (line 13)
    plot, save,       \* parameters plot, save                  (lines 15-16)
    \* ---- what the libraries yield for this image
    fl_low,           \* <<bw, bh>>: the float product w*scale (h*scale) lies
                      \* just below the integer it equals exactly
    kmeans_centers,   \* kmeans.cluster_centers_                (line 96)
    kmeans_labels,    \* number of pixels fit_predict labels i  (line 95)
    lab_of,           \* rgb2lab(simulate_cb(centroid i, CB_MATRICES[m]))
    \* ---- the function's locals and its effects
    pc,
    img,              \* size of img after line 86
    colors,           \* line 96
    counts,           \* Counter(labels), line 98
    freqs,            \* line 100
    safe_flags,       \* lines 108-125
    results,          \* lines 130-141
    lines,            \* lines 147-165
    console,          \* what print wrote to stdout, line 168
    txt_written, txt_file,   \* <base>_palette.txt, lines 171-173
    png_written,      \* <base>_palette.png, line 204
    returned          \* the value returned, line 208

inputs  == <<w, h, resize, n_colors, deltaE_thresh, plot, save>>
library == <<fl_low, kmeans_centers, kmeans_labels, lab_of>>
locals  == <<img, colors, counts, freqs, safe_flags, results, lines>>
effects == <<console, txt_written, txt_file, png_written, returned>>
vars    == <<inputs, library, pc, locals, effects>>

----------------------------------------------------------------------------
\* Bounds of the model
MaxDim    == 6      \* image sides 1..MaxDim in the loader specification
MaxResize == 4      \* resize targets 1..MaxResize in the loader specification
MaxColors == 3      \* n_colors 1..MaxColors in the safety and frequency specifications
MaxSide   == 4      \* image sides 1..MaxSide in the frequency specification
ChanScale == 100    \* resolution of a centroid channel: 1/(255*ChanScale)

Max(a, b) == IF a >= b THEN a ELSE b
Min(a, b) == IF a <= b THEN a ELSE b

RECURSIVE SumSeq(_)
SumSeq(s) == IF s = <<>> THEN 0 ELSE Head(s) + SumSeq(Tail(s))

----------------------------------------------------------------------------
\* CB_MATRICES: the three deficiency models, in the dict's insertion order
CB_MATRICES == <<"protanopia", "deuteranopia", "tritanopia">>

----------------------------------------------------------------------------
\* Loader, lines 83-86.
\* int(d * (resize / max(w, h))): the exact quotient truncated; when the exact
\* product is an integer k the float product may lie just below k and then
\* truncates to k - 1 (low = TRUE).
TruncScaled(d, rs, m, low) ==
    IF low /\ (d * rs) % m = 0
    THEN (d * rs) \div m - 1
    ELSE (d * rs) \div m

\* scale taken from the smaller side, resize / min(w, h)
ResizedSize_min(ww, hh, rs, low) ==
    LET m == Min(ww, hh)
    IN  IF rs < m
        THEN <<TruncScaled(ww, rs, m, low[1]), TruncScaled(hh, rs, m, low[2])>>
        ELSE <<ww, hh>>

\* scale = resize / max(w, h); if scale < 1: img.resize((int(w*scale), int(h*scale)))
ResizedSize(ww, hh, rs, low) ==
    LET m == Max(ww, hh)
    IN  IF rs < m
        THEN <<TruncScaled(ww, rs, m, low[1]), TruncScaled(hh, rs, m, low[2])>>
        ELSE <<ww, hh>>

\* pixels = img_np.reshape(-1, 3): one row per pixel
PixelCount(size) == size[1] * size[2]

----------------------------------------------------------------------------
\* KMeans stage, lines 94-100.
\* Counter(labels): only the labels that occur are keys
CounterOf(labels) == [i \in {k \in DOMAIN labels : labels[k] > 0} |-> labels[i]]

\* counts[i]: a Counter yields 0 for a missing key
CounterGet(c, i) == IF i \in DOMAIN c THEN c[i] ELSE 0

\* the list built from the Counter's own keys, [counts[i] for i in sorted(counts)]
FreqsOf_presentKeys(c, n) ==
    LET raw   == SelectSeq([i \in 1..n |-> CounterGet(c, i)], LAMBDA x : x > 0)
        total == SumSeq(raw)
    IN  [i \in 1..Len(raw) |-> <<raw[i] * 100, total>>]

\* freqs = np.array([counts[i] for i in range(n_colors)]); freqs / freqs.sum() * 100
FreqsOf(c, n) ==
    LET raw   == [i \in 1..n |-> CounterGet(c, i)]
        total == SumSeq(raw)
    IN  [i \in 1..n |-> <<raw[i] * 100, total>>]

----------------------------------------------------------------------------
\* Colour-blind safety test, lines 105-125.
DistSq(a, b) ==
    (a[1] - b[1]) * (a[1] - b[1]) + (a[2] - b[2]) * (a[2] - b[2])
        + (a[3] - b[3]) * (a[3] - b[3])

\* the comparison written dE <= deltaE_thresh
dE_le(a, b, t) == t >= 0 /\ DistSq(a, b) <= t * t

\* dE = np.linalg.norm(sim_lab[i] - sim_lab[j]); dE < deltaE_thresh
dE_lt(a, b, t) == t > 0 /\ DistSq(a, b) < t * t

\* for j in range(len(sim_lab)): if i != j and dE < thresh: is_safe = False; break
\* TRUE when the loop over j, from j on, ends without the break
RECURSIVE ScanJ(_, _, _, _)
ScanJ(sim_lab, i, j, t) ==
    IF j > Len(sim_lab) THEN TRUE
    ELSE IF i /= j /\ dE_lt(sim_lab[i], sim_lab[j], t) THEN FALSE
    ELSE ScanJ(sim_lab, i, j + 1, t)

\* for mat in CB_MATRICES.values(): ...; if not is_safe: break
RECURSIVE ScanMat(_, _, _, _)
ScanMat(labs, i, k, t) ==
    IF k > Len(CB_MATRICES) THEN TRUE
    ELSE IF ~ScanJ(labs[CB_MATRICES[k]], i, 1, t) THEN FALSE
    ELSE ScanMat(labs, i, k + 1, t)

\* is_safe = True set inside the loop over the models, and no break out of it:
\* the last model alone decides
IsSafe_lastModel(labs, i, t) == ScanJ(labs[CB_MATRICES[Len(CB_MATRICES)]], i, 1, t)

\* the loop over j started behind i: a colour is compared with the later ones only
IsSafe_laterOnly(labs, i, t) ==
    \A k \in 1..Len(CB_MATRICES) : ScanJ(labs[CB_MATRICES[k]], i, i + 1, t)

\* is_safe of colour i when safe_flags.append(is_safe) runs
IsSafe(labs, i, t) == ScanMat(labs, i, 1, t)

\* safe_flags after the loop over i in range(len(colors))
SafeFlags(labs, cols, t) == [i \in 1..Len(cols) |-> IsSafe(labs, i, t)]

----------------------------------------------------------------------------
\* Formatting, lines 130-141.
\* (rgb * 256).astype(int)
Rgb256(rgb) == [k \in 1..3 |-> (rgb[k] * 256) \div (255 * ChanScale)]

\* (rgb * 255).astype(int): truncation
Rgb255(rgb) == [k \in 1..3 |-> rgb[k] \div ChanScale]

HexDigits ==
    <<"0", "1", "2", "3", "4", "5", "6", "7", "8", "9", "A", "B", "C", "D", "E", "F">>

\* the digits of format(v, "X"), v >= 0
RECURSIVE HexOf(_)
HexOf(v) ==
    IF v < 16 THEN <<HexDigits[v + 1]>>
    ELSE Append(HexOf(v \div 16), HexDigits[(v % 16) + 1])

\* "{:02X}".format(v): zero-padded to a width of at least 2
Hex02(v) == IF v < 16 THEN <<"0">> \o HexOf(v) ELSE HexOf(v)

\* "#{:02X}{:02X}{:02X}".format(*rgb255)
HexCol(rgb255) == <<"#">> \o Hex02(rgb255[1]) \o Hex02(rgb255[2]) \o Hex02(rgb255[3])

\* round(f): to a whole percent
RoundTenths_whole(f) ==
    LET q == f[1] \div f[2]
        r == f[1] % f[2]
    IN  IF 2 * r < f[2] THEN 10 * q
        ELSE IF 2 * r > f[2] THEN 10 * (q + 1)
        ELSE IF q % 2 = 0 THEN 10 * q ELSE 10 * (q + 1)

\* round(f, 1) of f = num/den, in tenths of a percent; a tie goes to the even
\* neighbour (in the ties within the bounds the float f is exact)
RoundTenths(f) ==
    LET q == (10 * f[1]) \div f[2]
        r == (10 * f[1]) % f[2]
    IN  IF 2 * r < f[2] THEN q
        ELSE IF 2 * r > f[2] THEN q + 1
        ELSE IF q % 2 = 0 THEN q ELSE q + 1

\* the dictionary appended for one (rgb, f, safe) of the zip
Entry(rgb, f, safe) ==
    [hex |-> HexCol(Rgb255(rgb)), rgb |-> Rgb255(rgb),
     frequency |-> RoundTenths(f), colorblind_safe |-> safe]

\* for rgb, f, safe in zip(colors, freqs, safe_flags): results.append({...})
Entries(cols, fs, flags) ==
    [i \in 1..Min(Len(cols), Min(Len(fs), Len(flags))) |->
        Entry(cols[i], fs[i], flags[i])]

\* key=lambda x: x["frequency"]
SortKey_ascending(e) == e.frequency

\* key=lambda x: -x["frequency"]
SortKey(e) == 0 - e.frequency

\* list.sort is stable: e goes behind every element whose key is not greater
RECURSIVE InsertSorted(_, _)
InsertSorted(s, e) ==
    IF s = <<>> THEN <<e>>
    ELSE IF SortKey(Head(s)) <= SortKey(e) THEN <<Head(s)>> \o InsertSorted(Tail(s), e)
    ELSE <<e>> \o s

RECURSIVE SortResults(_)
SortResults(s) ==
    IF s = <<>> THEN <<>>
    ELSE InsertSorted(SortResults(SubSeq(s, 1, Len(s) - 1)), s[Len(s)])

----------------------------------------------------------------------------
\* Text summary, lines 147-173.  A string is a sequence of pieces; NL is "\n",
\* Row(i) the text of the table row of results[i].
Piece(kind) == [kind |-> kind, idx |-> 0]
NL          == Piece("newline")
Row(i)      == [kind |-> "row", idx |-> i]

header     == <<Piece("extracted"), NL>>
table_head == <<Piece("head_top"), NL, Piece("head_mid"), NL, Piece("head_bot"), NL>>
footer     == <<Piece("bottom"), NL>>

\* lines after line 165
LinesOf(res) == <<header, table_head>> \o [i \in 1..Len(res) |-> <<Row(i), NL>>] \o <<footer>>

\* sep.join(strs)
RECURSIVE Join(_, _)
Join(sep, strs) ==
    IF strs = <<>> THEN <<>>
    ELSE IF Len(strs) = 1 THEN strs[1]
    ELSE strs[1] \o sep \o Join(sep, Tail(strs))

\* print("\n".join(lines)): the joined text and print's end="\n"
Printed(ls) == Join(<<NL>>, ls) \o <<NL>>

\* f.writelines(lines): the strings one after the other
RECURSIVE WriteLines(_)
WriteLines(ls) == IF ls = <<>> THEN <<>> ELSE Head(ls) \o WriteLines(Tail(ls))

----------------------------------------------------------------------------
\* Inputs of the model

\* CIELAB values of simulated centroids: P1 is 5 from P0, P2 is 10 from P0
\* and sqrt(45) from P1
P0 == <<50, 0, 0>>
P1 == <<53, 4, 0>>
P2 == <<50, 10, 0>>
LabPoints == {P0, P1, P2}

\* the points a centroid may take under each model
OnePoint   == [protanopia |-> {P0}, deuteranopia |-> {P0}, tritanopia |-> {P0}]
TwoPoints  == [protanopia |-> {P0, P1}, deuteranopia |-> {P0, P1}, tritanopia |-> {P0, P1}]
WidePoints == [protanopia |-> LabPoints, deuteranopia |-> {P0, P2}, tritanopia |-> {P0, P1}]

\* deltaE_thresh: 10 is the default
Thresholds == {5, 10}

\* centroid channels: 8-bit levels l (c = l/255) and values just below the next level
Levels   == {0, 9, 15, 16, 171, 254, 255}
Channels == {l * ChanScale : l \in Levels} \cup {l * ChanScale + ChanScale - 1 : l \in Levels \ {255}}
Grey     == 128 * ChanScale

\* the ways n labels can be spread over total pixels
RECURSIVE Spreads(_, _)
Spreads(total, n) ==
    IF n = 1 THEN {<<total>>}
    ELSE UNION {{<<k>> \o s : s \in Spreads(total - k, n - 1)} : k \in 0..total}

\* one spread: every label occurs, the first takes the rest
EvenSpread(total, n) == {[i \in 1..n |-> IF i = 1 THEN total - (n - 1) ELSE 1]}

\* fl_low: only a product that is exactly an integer can truncate one too low
LowChoices(ww, hh, rs) ==
    LET m == Max(ww, hh)
    IN  {b \in BOOLEAN \X BOOLEAN :
            /\ b[1] => (rs < m /\ (ww * rs) % m = 0)
            /\ b[2] => (rs < m /\ (hh * rs) % m = 0)}

\* The state at the call: arguments from the given sets, the locals unset, no
\* effect yet.  KMeans needs n_samples >= n_clusters; where it will raise, the
\* library yields nothing.
InitWith(Sizes, Resizes, NCols, Threshs, Points, Chans, Flags, allSpreads) ==
    /\ \E sz \in Sizes : w = sz[1] /\ h = sz[2]
    /\ resize \in Resizes
    /\ n_colors \in NCols
    /\ deltaE_thresh \in Threshs
    /\ \E fl \in Flags : plot = fl[1] /\ save = fl[2]
    /\ fl_low \in LowChoices(w, h, resize)
    /\ LET total == PixelCount(ResizedSize(w, h, resize, fl_low))
       IN  IF total >= n_colors
           THEN /\ kmeans_centers \in [1..n_colors -> [1..3 -> Chans]]
                /\ kmeans_labels \in IF allSpreads THEN Spreads(total, n_colors)
                                                   ELSE EvenSpread(total, n_colors)
                /\ lab_of \in [protanopia   : [1..n_colors -> Points.protanopia],
                               deuteranopia : [1..n_colors -> Points.deuteranopia],
                               tritanopia   : [1..n_colors -> Points.tritanopia]]
           ELSE /\ kmeans_centers = <<>>
                /\ kmeans_labels = <<>>
                /\ lab_of = <<>>
    /\ pc = "start"
    /\ img = <<>>
    /\ colors = <<>>
    /\ counts = <<>>
    /\ freqs = <<>>
    /\ safe_flags = <<>>
    /\ results = <<>>
    /\ lines = <<>>
    /\ console = <<>>
    /\ txt_written = FALSE
    /\ txt_file = <<>>
    /\ png_written = FALSE
    /\ returned = <<>>

----------------------------------------------------------------------------
\* The steps of the call

\* lines 82-89: open, convert, resize when scale < 1
LoadImage ==
    /\ pc = "start"
    /\ img' = ResizedSize(w, h, resize, fl_low)
    /\ pc' = "loaded"
    /\ UNCHANGED <<inputs, library, colors, counts, freqs, safe_flags, results, lines, effects>>

\* lines 82-86: Image.open, convert or resize raises
LoadFails ==
    /\ pc = "start"
    /\ pc' = "aborted"
    /\ UNCHANGED <<inputs, library, locals, effects>>

\* lines 94-100
KMeansColors ==
    /\ pc = "loaded"
    /\ PixelCount(img) >= n_colors
    /\ colors' = kmeans_centers
    /\ counts' = CounterOf(kmeans_labels)
    /\ freqs' = FreqsOf(counts', n_colors)
    /\ pc' = "clustered"
    /\ UNCHANGED <<inputs, library, img, safe_flags, results, lines, effects>>

\* line 95: fit_predict raises on fewer pixels than clusters
KMeansFails ==
    /\ pc = "loaded"
    /\ PixelCount(img) < n_colors
    /\ pc' = "aborted"
    /\ UNCHANGED <<inputs, library, locals, effects>>

\* lines 108-125
SafetyTest ==
    /\ pc = "clustered"
    /\ safe_flags' = SafeFlags(lab_of, colors, deltaE_thresh)
    /\ pc' = "tested"
    /\ UNCHANGED <<inputs, library, img, colors, counts, freqs, results, lines, effects>>

\* lines 130-165: the entries, sorted, and the lines of the table
FormatResults ==
    /\ pc = "tested"
    /\ results' = SortResults(Entries(colors, freqs, safe_flags))
    /\ lines' = LinesOf(results')
    /\ pc' = "formatted"
    /\ UNCHANGED <<inputs, library, img, colors, counts, freqs, safe_flags, effects>>

\* line 168
PrintSummary ==
    /\ pc = "formatted"
    /\ console' = Printed(lines)
    /\ pc' = "printed"
    /\ UNCHANGED <<inputs, library, locals, txt_written, txt_file, png_written, returned>>

\* line 168: print raises (a console that cannot encode the table)
PrintFails ==
    /\ pc = "formatted"
    /\ pc' = "aborted"
    /\ UNCHANGED <<inputs, library, locals, effects>>

\* lines 171-173
SaveText ==
    /\ pc = "printed"
    /\ IF save
       THEN txt_written' = TRUE /\ txt_file' = WriteLines(lines)
       ELSE UNCHANGED <<txt_written, txt_file>>
    /\ pc' = "saved"
    /\ UNCHANGED <<inputs, library, locals, console, png_written, returned>>

\* line 172: open(txt_path, "w") raises
SaveTextFails ==
    /\ pc = "printed"
    /\ save
    /\ pc' = "aborted"
    /\ UNCHANGED <<inputs, library, locals, effects>>

\* lines 179-201
RenderFigure ==
    /\ pc = "saved"
    /\ plot
    /\ pc' = "rendered"
    /\ UNCHANGED <<inputs, library, locals, effects>>

\* lines 180-201: a plotting call raises
RenderFails ==
    /\ pc = "saved"
    /\ plot
    /\ pc' = "aborted"
    /\ UNCHANGED <<inputs, library, locals, effects>>

\* savefig outside the test of save
SaveFigure_always ==
    /\ pc = "rendered"
    /\ png_written' = TRUE
    /\ pc' = "figsaved"
    /\ UNCHANGED <<inputs, library, locals, console, txt_written, txt_file, returned>>

\* lines 203-204: savefig when save
SaveFigure ==
    /\ pc = "rendered"
    /\ IF save THEN png_written' = TRUE ELSE UNCHANGED png_written
    /\ pc' = "figsaved"
    /\ UNCHANGED <<inputs, library, locals, console, txt_written, txt_file, returned>>

\* line 204: savefig raises
SaveFigureFails ==
    /\ pc = "rendered"
    /\ save
    /\ pc' = "aborted"
    /\ UNCHANGED <<inputs, library, locals, effects>>

\* line 206
ShowFigure ==
    /\ pc = "figsaved"
    /\ pc' = "shown"
    /\ UNCHANGED <<inputs, library, locals, effects>>

\* line 206: plt.show raises
ShowFails ==
    /\ pc = "figsaved"
    /\ pc' = "aborted"
    /\ UNCHANGED <<inputs, library, locals, effects>>

\* line 208
Return ==
    /\ \/ pc = "saved" /\ ~plot
       \/ pc = "shown"
    /\ returned' = results
    /\ pc' = "done"
    /\ UNCHANGED <<inputs, library, locals, console, txt_written, txt_file, png_written>>

Next ==
    \/ LoadImage
    \/ LoadFails
    \/ KMeansColors
    \/ KMeansFails
    \/ SafetyTest
    \/ FormatResults
    \/ PrintSummary
    \/ PrintFails
    \/ SaveText
    \/ SaveTextFails
    \/ RenderFigure
    \/ RenderFails
    \/ SaveFigure
    \/ SaveFigureFails
    \/ ShowFigure
    \/ ShowFails
    \/ Return

----------------------------------------------------------------------------
\* Specifications: the same call, over different sets of inputs

\* small images, every combination of plot and save
Init ==
    InitWith({<<1, 1>>, <<3, 2>>}, {2}, 1..2, {10}, TwoPoints, {Grey},
             BOOLEAN \X BOOLEAN, TRUE)

Spec == Init /\ [][Next]_vars

\* the loader: every size up to MaxDim, every target up to MaxResize
InitLoad ==
    \/ Init
    \/ InitWith((1..MaxDim) \X (1..MaxDim), 1..MaxResize, {1}, {10}, OnePoint, {Grey},
                {<<FALSE, FALSE>>}, FALSE)

SpecLoad == InitLoad /\ [][Next]_vars

\* the safety test: every placing of the centroids on WidePoints
InitSafety ==
    \/ Init
    \/ InitWith({<<MaxColors, 1>>}, {400}, 1..MaxColors, Thresholds, WidePoints, {Grey},
                {<<FALSE, FALSE>>}, FALSE)

SpecSafety == InitSafety /\ [][Next]_vars

\* frequencies and order: every spread of the pixels over the clusters
InitFreq ==
    \/ Init
    \/ InitWith((1..MaxSide) \X (1..MaxSide), {400}, 1..MaxColors, {10}, OnePoint, {Grey},
                {<<FALSE, FALSE>>}, TRUE)

SpecFreq == InitFreq /\ [][Next]_vars

\* formatting: one centroid, every channel of Channels
InitFormat ==
    \/ Init
    \/ InitWith({<<1, 1>>}, {400}, {1}, {10}, OnePoint, Channels,
                {<<FALSE, FALSE>>}, FALSE)

SpecFormat == InitFormat /\ [][Next]_vars

----------------------------------------------------------------------------
\* Properties of the safety test

Models == {CB_MATRICES[k] : k \in 1..Len(CB_MATRICES)}

\* safe_flags holds the verdict of every colour
Tested == pc \in {"tested", "formatted", "printed", "saved", "rendered", "figsaved", "shown", "done"}

\* the distance between the simulated colours of i and j under m is below the threshold
Below(m, i, j) ==
    deltaE_thresh > 0
        /\ DistSq(lab_of[m][i], lab_of[m][j]) < deltaE_thresh * deltaE_thresh

\* ... equals the threshold
AtThreshold(m, i, j) ==
    deltaE_thresh >= 0
        /\ DistSq(lab_of[m][i], lab_of[m][j]) = deltaE_thresh * deltaE_thresh

\* colour i has another colour below the threshold under some model
HasCollision(i) ==
    \E m \in Models : \E j \in 1..n_colors : j /= i /\ Below(m, i, j)

Unsafe == {i \in 1..n_colors : ~safe_flags[i]}

\* C1: every colour is flagged unsafe exactly when some other colour is below
\* deltaE_thresh from it under one of the three models, and safe otherwise (a
\* single colour is safe); the returned entries carry these verdicts.
C1_SafeIffNoCollision ==
    /\ Tested =>
          /\ Len(safe_flags) = n_colors
          /\ \A i \in 1..n_colors : safe_flags[i] = ~HasCollision(i)
    /\ pc = "done" =>
          \A k \in 1..Len(returned) : \E i \in 1..n_colors :
              returned[k] = Entry(colors[i], freqs[i], ~HasCollision(i))

\* a palette of three is returned, with safe and unsafe entries
C1_Witness ==
    /\ pc = "done"
    /\ n_colors = 3
    /\ \E i, j \in 1..3 : HasCollision(i) /\ ~HasCollision(j)
    /\ \E k, l \in 1..3 : returned[k].colorblind_safe /\ ~returned[l].colorblind_safe

\* C2 as stated: a colour flagged safe is strictly farther than deltaE_thresh
\* from every other colour under every model.
C2_SafeOnlyIfExceeds ==
    Tested =>
        \A i \in 1..n_colors : safe_flags[i] =>
            \A m \in Models : \A j \in 1..n_colors :
                j /= i => ~Below(m, i, j) /\ ~AtThreshold(m, i, j)

\* C2 amended: a colour flagged safe is at least deltaE_thresh from every other
\* colour under every model (a distance equal to the threshold does not make
\* it unsafe).
C2_SafeOnlyIfNotBelow ==
    Tested =>
        \A i \in 1..n_colors : safe_flags[i] =>
            \A m \in Models : \A j \in 1..n_colors : j /= i => ~Below(m, i, j)

\* a colour exactly deltaE_thresh from another one is flagged safe
C2_Witness ==
    /\ Tested
    /\ \E i \in 1..n_colors : safe_flags[i] /\
           \E m \in Models : \E j \in 1..n_colors : j /= i /\ AtThreshold(m, i, j)

\* C10: two colours below the threshold from each other under some model are
\* both flagged unsafe, wherever they stand, and no palette has exactly one
\* unsafe entry.
C10_CollisionMarksBoth ==
    /\ Tested =>
          /\ \A i, j \in 1..n_colors : \A m \in Models :
                 (i /= j /\ Below(m, i, j)) => (~safe_flags[i] /\ ~safe_flags[j])
          /\ Cardinality(Unsafe) /= 1
    /\ pc = "done" =>
          Cardinality({k \in 1..Len(returned) : ~returned[k].colorblind_safe}) /= 1

\* the first and the third of three colours collide, but not under the first
\* model; the second collides with neither: two entries unsafe, one safe
C10_Witness ==
    /\ pc = "done"
    /\ n_colors = 3
    /\ ~Below("protanopia", 1, 3)
    /\ \E m \in Models : Below(m, 3, 1)
    /\ Unsafe = {1, 3}
    /\ Cardinality({k \in 1..Len(returned) : returned[k].colorblind_safe}) = 1

----------------------------------------------------------------------------
\* Properties of the palette

\* results holds the sorted entries
Formatted == pc \in {"formatted", "printed", "saved", "rendered", "figsaved", "shown", "done"}

\* how often e occurs in the sequence s
Occurrences(s, e) == Cardinality({k \in 1..Len(s) : s[k] = e})

SameEntries(s, t) ==
    /\ Len(s) = Len(t)
    /\ \A k \in 1..Len(s) : Occurrences(s, s[k]) = Occurrences(t, s[k])

Descending(s) == \A k \in 1..(Len(s) - 1) : s[k].frequency >= s[k + 1].frequency

\* C3: the palette has exactly n_colors entries, one for every cluster index,
\* a cluster without pixels included, with frequency 0.
C3_OneEntryPerCluster ==
    /\ Formatted =>
          /\ Len(results) = n_colors
          /\ \A i \in 1..n_colors : \E k \in 1..Len(results) :
                 results[k].rgb = Rgb255(kmeans_centers[i])
          /\ Cardinality({k \in 1..Len(results) : results[k].frequency = 0})
                 >= Cardinality({i \in 1..n_colors : kmeans_labels[i] = 0})
    /\ pc = "done" => Len(returned) = n_colors

\* a palette is returned for an image one of whose clusters has no pixel
C3_Witness ==
    /\ pc = "done"
    /\ n_colors = 3
    /\ \E i \in 1..3 : kmeans_labels[i] = 0
    /\ \E k \in 1..Len(returned) : returned[k].frequency = 0

\* C4: the palette is the per-cluster entries, each kept whole, in descending
\* order of frequency.
C4_SortedByFrequency ==
    /\ Formatted =>
          /\ SameEntries(results, Entries(colors, freqs, safe_flags))
          /\ Descending(results)
    /\ pc = "done" =>
          /\ SameEntries(returned, Entries(colors, freqs, safe_flags))
          /\ Descending(returned)

\* three clusters of growing size: the order of the palette is the reverse of
\* the order of the clusters
C4_Witness ==
    /\ pc = "done"
    /\ n_colors = 3
    /\ kmeans_labels[1] < kmeans_labels[2] /\ kmeans_labels[2] < kmeans_labels[3]
    /\ returned[1].frequency > returned[2].frequency
    /\ returned[2].frequency > returned[3].frequency

SumFrequency(s) == SumSeq([k \in 1..Len(s) |-> s[k].frequency])

\* C5: every frequency is non-negative and the frequencies sum to 100 within
\* n_colors * 0.1 (frequencies are in tenths of a percent).
C5_FrequenciesSumTo100 ==
    Formatted =>
        /\ \A k \in 1..Len(results) : results[k].frequency >= 0
        /\ SumFrequency(results) - 1000 <= n_colors
        /\ 1000 - SumFrequency(results) <= n_colors

\* the rounded frequencies do not sum to 100
C5_Witness ==
    /\ pc = "done"
    /\ n_colors = 3
    /\ SumFrequency(returned) /= 1000

\* the value of an uppercase hexadecimal digit
DigitValue(ch) == CHOOSE d \in 0..15 : HexDigits[d + 1] = ch

UpperHex == {HexDigits[d] : d \in 1..16}

\* int(s, 16) of a two-digit group
Decode2(s) == 16 * DigitValue(s[1]) + DigitValue(s[2])

\* C6: rgb is a triple in 0..255, hex is "#" and six uppercase hexadecimal
\* digits, and the three two-digit groups of hex decode to rgb.
C6_HexDecodesToRgb ==
    Formatted =>
        \A k \in 1..Len(results) :
            LET e == results[k]
            IN  /\ Len(e.rgb) = 3
                /\ \A c \in 1..3 : e.rgb[c] \in 0..255
                /\ Len(e.hex) = 7
                /\ e.hex[1] = "#"
                /\ \A d \in 2..7 : e.hex[d] \in UpperHex
                /\ \A c \in 1..3 : Decode2(SubSeq(e.hex, 2 * c, 2 * c + 1)) = e.rgb[c]

\* an entry with a channel below 16 (padded), one with letter digits, and 255
C6_Witness ==
    /\ pc = "done"
    /\ returned[1].rgb = <<9, 171, 255>>
    /\ returned[1].hex = <<"#", "0", "9", "A", "B", "F", "F">>

----------------------------------------------------------------------------
\* Properties of the outputs

\* C7: the text file holds the text printed to the console, verbatim.
C7_FileIsConsoleText == txt_written => txt_file = console

----------------------------------------------------------------------------
\* Properties of the loader

Loaded == pc /= "start" /\ img /= <<>>

\* side new is side old scaled by resize / m, within one pixel
ScaledWithinOne(new, old, m) ==
    /\ new <= old
    /\ new * m <= old * resize
    /\ old * resize <= (new + 1) * m

\* C8: an image whose larger side exceeds resize is scaled down, both sides by
\* resize / max(w, h) within a pixel, so that the larger side is resize within a
\* pixel; any other image keeps its size.
C8_ResizeOnlyDown ==
    Loaded =>
        LET m == Max(w, h)
        IN  IF m > resize
            THEN /\ Max(img[1], img[2]) \in {resize - 1, resize}
                 /\ ScaledWithinOne(img[1], w, m)
                 /\ ScaledWithinOne(img[2], h, m)
            ELSE img = <<w, h>>

\* a 4 x 2 image with resize = 3 is 3 x 1 after the loader
C8_Witness ==
    /\ pc = "loaded"
    /\ w = 4 /\ h = 2 /\ resize = 3
    /\ img = <<3, 1>>

----------------------------------------------------------------------------
\* Properties of the files written

\* C9: a file is written only after the image was loaded and only when save
\* is set; the PNG only when plot is set too and only after the text file.
C9_FilesWrittenInOrder ==
    /\ (txt_written \/ png_written) => (save /\ img /= <<>>)
    /\ png_written => (plot /\ txt_written)
    /\ (pc = "done" /\ save) => (txt_written /\ (plot => png_written))

\* plotting raised after the text file was written: no PNG
C9_Witness ==
    /\ pc = "aborted"
    /\ plot
    /\ txt_written
    /\ ~png_written

====
